---- MODULE Spec2Model ----
(***************************************************************************)
(* Model of puzzles_app.py: the Solver / Puzzle / Rating tables, the bulk  *)
(* load done at start-up, the three mutation endpoints (one action per     *)
(* database statement, since FastAPI runs sync handlers on a thread pool   *)
(* and each handler opens its own Session), the read endpoints (operators  *)
(* over the committed tables) and process shutdown.  The two earlier       *)
(* iterations, Board_Game_App.py (ratings kept in attributes of app) and   *)
(* board_game_app.py (one ratings table), follow with specifications of    *)
(* their own.                                                              *)
(***************************************************************************)
EXTENDS Integers, Sequences, FiniteSets, Bags, TLC

VARIABLES solvers, puzzles, ratings, phase, ops, proc, solvers_puzzles_list,
          games_by_player, all_player_games

vars == <<solvers, puzzles, ratings, phase, ops, proc, solvers_puzzles_list,
          games_by_player, all_player_games>>

\* an attribute of app is <<>> until it is assigned and <<value>> after;
\* puzzles_app.py assigns neither app.games_by_player nor
\* app.all_player_games
Unset == <<>>

Attributes == <<games_by_player, all_player_games>>

(***************************************************************************)
(* Bounds                                                                  *)
(***************************************************************************)
\* ratings sent in requests and written in upload files are 1..MaxScore
MaxScore == 2
\* the work done in one behaviour: ratings read from upload files plus
\* requests served
MaxOps == 4
\* ratings in one upload file, over all its records
MaxEntries == 2

Scores == 1..MaxScore

\* the worker threads that serve requests
Procs == {"t1", "t2"}

\* the pool's threads in the order it hands requests to them
Before(p) == IF p = "t2" THEN {"t1"} ELSE {}

(***************************************************************************)
(* Names are sequences of characters; str.title() works on them.           *)
(***************************************************************************)
LowerCase == {"e", "m", "l", "g", "o", "a", "b"}

ToUpper(c) ==
    CASE c = "e" -> "E" [] c = "m" -> "M" [] c = "l" -> "L" [] c = "g" -> "G"
      [] c = "o" -> "O" [] c = "a" -> "A" [] c = "b" -> "B" [] OTHER -> c

ToLower(c) ==
    CASE c = "E" -> "e" [] c = "M" -> "m" [] c = "L" -> "l" [] c = "G" -> "g"
      [] c = "O" -> "o" [] c = "A" -> "a" [] c = "B" -> "b" [] OTHER -> c

UpperCase == {ToUpper(c) : c \in LowerCase}

IsCased(c) == c \in LowerCase \cup UpperCase

\* a title-casing that capitalizes the start of each word and leaves the
\* other characters as they are
UpperFirst(s) ==
    [i \in 1..Len(s) |->
        IF i > 1 /\ IsCased(s[i - 1]) THEN s[i] ELSE ToUpper(s[i])]

\* str.title(): a cased character that follows a cased character is
\* lowercased, any other character is titlecased; uncased characters
\* (space, underscore) are left alone and start a new word.
Title(s) ==
    [i \in 1..Len(s) |->
        IF i > 1 /\ IsCased(s[i - 1]) THEN ToLower(s[i]) ELSE ToUpper(s[i])]

\* the solver names and puzzle names that requests and upload files carry
SolverInputs == {<<"E", "m">>, <<"e", "M">>, <<"m", "e", "l">>}

PuzzleInputs == {<<"g", "o">>, <<"G", "O">>, <<"a", " ", "b">>}

(***************************************************************************)
(* The tables.  Only ratings carries a constraint on its columns: UNIQUE    *)
(* (solver_id, puzzle_id).  Neither solvers.solver nor puzzles.puzzle is   *)
(* unique.                                                                 *)
(***************************************************************************)
\* id = Column(Integer, primary_key=True): the key of a new row.  Solver and
\* Puzzle rows are never deleted, so the next key is the row count plus one.
\* Rating rows are deleted; a handler tells Rating rows apart by key only, so
\* a new Rating takes the least key that no row and no handler holds.
NewId(table) == Cardinality(table) + 1

NewRatingId(table, held) ==
    CHOOSE n \in 1..(Cardinality(table) + Cardinality(held) + 1) :
        /\ n \notin {r.id : r \in table} \cup held
        /\ \A m \in 1..(n - 1) : m \in {r.id : r \in table} \cup held

Puzzle(id, name) == [id |-> id, puzzle |-> name]

Solver(id, name) == [id |-> id, solver |-> name]

Rating(id, solver_id, puzzle_id, rating) ==
    [id |-> id, solver_id |-> solver_id, puzzle_id |-> puzzle_id, rating |-> rating]

\* a ratings table declared without its UniqueConstraint
NoUniqueConstraint(table, solver_id, puzzle_id) == FALSE

\* UniqueConstraint("solver_id", "puzzle_id"): would inserting this pair
\* raise IntegrityError
ViolatesUnique(table, solver_id, puzzle_id) ==
    \E r \in table : r.solver_id = solver_id /\ r.puzzle_id = puzzle_id

\* session.query(Puzzle).filter_by(puzzle=name): the rows .first() may
\* return (the query has no ORDER BY, so any matching row); 0 stands for None
PuzzleFirst(table, name) ==
    IF \E r \in table : r.puzzle = name
    THEN {r.id : r \in {x \in table : x.puzzle = name}}
    ELSE {0}

\* a lookup of the solver that finds no row
SolverNone(table, name) == {0}

SolverFirst(table, name) ==
    IF \E r \in table : r.solver = name
    THEN {r.id : r \in {x \in table : x.solver = name}}
    ELSE {0}

\* session.query(Rating).filter_by(puzzle_id=.., solver_id=..): at most one
\* row, by the unique constraint
RatingRows(table, solver_id, puzzle_id) ==
    {r \in table : r.solver_id = solver_id /\ r.puzzle_id = puzzle_id}

\* rating.solver.solver and rating.puzzle.puzzle: the names a Rating row's
\* foreign keys lead to
SolverNameOf(r) == (CHOOSE s \in solvers : s.id = r.solver_id).solver

PuzzleNameOf(r) == (CHOOSE z \in puzzles : z.id = r.puzzle_id).puzzle

(***************************************************************************)
(* Responses.  detail is the HTTPException's message: its fixed wording    *)
(* and the names formatted into it.                                        *)
(***************************************************************************)
NoDetail == [text |-> "", names |-> <<>>]

NoBody == [name |-> <<>>, puzzles |-> <<>>]

SolverNotFound(solver_name) == [text |-> "Solver {} not found.", names |-> <<solver_name>>]

PuzzleNotFound(puzzle_name) == [text |-> "Puzzle {} not found.", names |-> <<puzzle_name>>]

NotRatedBy(puzzle_name, solver_name) ==
    [text |-> "Puzzle {} not rated by {}.", names |-> <<puzzle_name, solver_name>>]

AlreadyRated(puzzle_name, solver_name) ==
    [text |-> "Puzzle {} has already been rated by {}.", names |-> <<puzzle_name, solver_name>>]

\* SolverEntry(name=solver_name, puzzles={puzzle: rating})
SolverEntry(name, puzzle_name, rating) ==
    [name |-> name, puzzles |-> <<<<puzzle_name, rating>>>>]

(***************************************************************************)
(* A worker thread: the request it serves, where it is in the handler, the *)
(* handler's local variables, and the response it sent last.               *)
(***************************************************************************)
Idle ==
    [pc |-> "idle", op |-> "none", puzzle_name |-> <<>>, solver_name |-> <<>>,
     rating |-> 0, puzzle |-> 0, solver |-> 0, row |-> 0, loaded |-> 0,
     status |-> 0, body |-> NoBody, detail |-> NoDetail, rated |-> FALSE]

\* the Rating rows of a pair of names
RatingsOf(table, puzzle_name, solver_name) ==
    {r \in table : PuzzleNameOf(r) = puzzle_name /\ SolverNameOf(r) = solver_name}

\* the handler's first lines: both names are title-cased.  rated is not a
\* variable of the handler: it records whether the pair had a Rating when the
\* request came in.
Call(op, puzzle_name, solver_name, rating) ==
    [Idle EXCEPT !.op = op, !.puzzle_name = Title(puzzle_name),
                 !.solver_name = Title(solver_name), !.rating = rating,
                 !.rated = RatingsOf(ratings, Title(puzzle_name), Title(solver_name)) # {}]

\* the handler returns or raises HTTPException: the locals are dropped
Respond(t, status, body, detail) ==
    [t EXCEPT !.pc = "done", !.puzzle = 0, !.solver = 0, !.row = 0, !.loaded = 0,
              !.status = status, !.body = body, !.detail = detail]

\* the Rating rows some handler holds as ratings[0]
HeldRows == {proc[p].row : p \in Procs} \ {0}

InFlight(p) == proc[p].pc \notin {"idle", "done"}

\* a request is handed to the first thread that is not serving one
CanCall(p) ==
    /\ phase = "serving"
    /\ ops < MaxOps
    /\ ~InFlight(p)
    /\ \A q \in Before(p) : InFlight(q)

Tables == <<solvers, puzzles, ratings>>

\* what a handler's step leaves alone besides the tables and its thread
Process == <<phase, solvers_puzzles_list, Attributes>>

(***************************************************************************)
(* POST /api/puzzles/{puzzle_name}/{solver_name}                           *)
(***************************************************************************)
\* where add_puzzle_rating goes after its two lookups
AddNext(t) ==
    IF t.puzzle = 0 THEN "add_new_puzzle"
    ELSE IF t.solver = 0 THEN "add_new_solver" ELSE "add_insert"

\* the names are title-cased; puzzle = query(Puzzle).filter_by(..).first()
add_puzzle_rating_query_puzzle(p) ==
    /\ CanCall(p)
    /\ \E puzzle_name \in PuzzleInputs, solver_name \in SolverInputs, rating \in Scores :
         LET t == Call("add", puzzle_name, solver_name, rating) IN
         \E found \in PuzzleFirst(puzzles, t.puzzle_name) :
            proc' = [proc EXCEPT ![p] = [t EXCEPT !.pc = "add_query_solver", !.puzzle = found]]
    /\ ops' = ops + 1
    /\ UNCHANGED <<Tables, Process>>

\* solver = query(Solver).filter_by(..).first()
add_puzzle_rating_query_solver(p) ==
    /\ proc[p].pc = "add_query_solver"
    /\ \E found \in SolverFirst(solvers, proc[p].solver_name) :
         LET t == [proc[p] EXCEPT !.solver = found] IN
         proc' = [proc EXCEPT ![p] = [t EXCEPT !.pc = AddNext(t)]]
    /\ UNCHANGED <<Tables, Process, ops>>

\* if not puzzle: add Puzzle(puzzle=puzzle_name), commit
add_puzzle_rating_new_puzzle(p) ==
    /\ proc[p].pc = "add_new_puzzle"
    /\ puzzles' = puzzles \cup {Puzzle(NewId(puzzles), proc[p].puzzle_name)}
    /\ LET t == [proc[p] EXCEPT !.puzzle = NewId(puzzles)] IN
       proc' = [proc EXCEPT ![p] = [t EXCEPT !.pc = AddNext(t)]]
    /\ UNCHANGED <<solvers, ratings, Process, ops>>

\* if not solver: add Solver(solver=solver_name), commit
add_puzzle_rating_new_solver(p) ==
    /\ proc[p].pc = "add_new_solver"
    /\ solvers' = solvers \cup {Solver(NewId(solvers), proc[p].solver_name)}
    /\ LET t == [proc[p] EXCEPT !.solver = NewId(solvers)] IN
       proc' = [proc EXCEPT ![p] = [t EXCEPT !.pc = AddNext(t)]]
    /\ UNCHANGED <<puzzles, ratings, Process, ops>>

\* an insert that adds the Rating to the session and answers without
\* committing: the row is never stored
add_puzzle_rating_insert_uncommitted(p) ==
    /\ proc[p].pc = "add_insert"
    /\ LET t == proc[p] IN
       proc' = [proc EXCEPT ![p] =
                  Respond(t, 201, SolverEntry(t.solver_name, t.puzzle_name, t.rating), NoDetail)]
    /\ UNCHANGED <<Tables, Process, ops>>

\* an insert that overwrites the score of the pair's Rating when there is
\* one, and answers 201
add_puzzle_rating_upsert(p) ==
    /\ proc[p].pc = "add_insert"
    /\ LET t == proc[p] IN
       /\ ratings' = IF ViolatesUnique(ratings, t.solver, t.puzzle)
                     THEN {IF r.solver_id = t.solver /\ r.puzzle_id = t.puzzle
                           THEN [r EXCEPT !.rating = t.rating] ELSE r : r \in ratings}
                     ELSE ratings \cup {Rating(NewRatingId(ratings, HeldRows),
                                               t.solver, t.puzzle, t.rating)}
       /\ proc' = [proc EXCEPT ![p] =
                     Respond(t, 201, SolverEntry(t.solver_name, t.puzzle_name, t.rating), NoDetail)]
    /\ UNCHANGED <<solvers, puzzles, Process, ops>>

\* add Rating(solver_id, puzzle_id, rating), commit; IntegrityError is
\* caught, rolled back and answered 409
add_puzzle_rating_insert(p) ==
    /\ proc[p].pc = "add_insert"
    /\ LET t == proc[p] IN
       IF ViolatesUnique(ratings, t.solver, t.puzzle)
       THEN /\ ratings' = ratings
            /\ proc' = [proc EXCEPT ![p] =
                          Respond(t, 409, NoBody, AlreadyRated(t.puzzle_name, t.solver_name))]
       ELSE /\ ratings' = ratings \cup {Rating(NewRatingId(ratings, HeldRows), t.solver, t.puzzle, t.rating)}
            /\ proc' = [proc EXCEPT ![p] =
                          Respond(t, 201, SolverEntry(t.solver_name, t.puzzle_name, t.rating), NoDetail)]
    /\ UNCHANGED <<solvers, puzzles, Process, ops>>

(***************************************************************************)
(* PATCH and DELETE /api/puzzles/{puzzle_name}/{solver_name}: the same     *)
(* three lookups (puzzle, then solver, then the rating of the pair), each  *)
(* answering 404 when it finds nothing.                                    *)
(***************************************************************************)
\* puzzle = query(Puzzle).filter_by(..).first(); if not puzzle: 404
LookupPuzzle(p, t, next) ==
    \E found \in PuzzleFirst(puzzles, t.puzzle_name) :
       proc' = [proc EXCEPT ![p] =
                  IF found = 0
                  THEN Respond(t, 404, NoBody, PuzzleNotFound(t.puzzle_name))
                  ELSE [t EXCEPT !.pc = next, !.puzzle = found]]

\* solver = query(Solver).filter_by(..).first(); if not solver: 404
LookupSolver(p, t, next) ==
    \E found \in SolverFirst(solvers, t.solver_name) :
       proc' = [proc EXCEPT ![p] =
                  IF found = 0
                  THEN Respond(t, 404, NoBody, SolverNotFound(t.solver_name))
                  ELSE [t EXCEPT !.pc = next, !.solver = found]]

\* the lookup of the pair's Rating without its "if not ratings" branch
LookupRatingUnchecked(p, t, next) ==
    LET rows == RatingRows(ratings, t.solver, t.puzzle) IN
    \E r \in rows \cup {Rating(0, t.solver, t.puzzle, 0)} :
       (r.id = 0 => rows = {})
       /\ proc' = [proc EXCEPT ![p] = [t EXCEPT !.pc = next, !.row = r.id, !.loaded = r.rating]]

\* ratings = query(Rating).filter_by(puzzle_id, solver_id).all();
\* if not ratings: 404; ratings[0] is kept with the rating it was loaded with
LookupRating(p, t, next) ==
    LET rows == RatingRows(ratings, t.solver, t.puzzle) IN
    IF rows = {}
    THEN proc' = [proc EXCEPT ![p] =
                    Respond(t, 404, NoBody, NotRatedBy(t.puzzle_name, t.solver_name))]
    ELSE \E r \in rows :
            proc' = [proc EXCEPT ![p] = [t EXCEPT !.pc = next, !.row = r.id, !.loaded = r.rating]]

update_solver_rating_query_puzzle(p) ==
    /\ CanCall(p)
    /\ \E puzzle_name \in PuzzleInputs, solver_name \in SolverInputs, rating \in Scores :
         LookupPuzzle(p, Call("update", puzzle_name, solver_name, rating), "update_query_solver")
    /\ ops' = ops + 1
    /\ UNCHANGED <<Tables, Process>>

update_solver_rating_query_solver(p) ==
    /\ proc[p].pc = "update_query_solver"
    /\ LookupSolver(p, proc[p], "update_query_ratings")
    /\ UNCHANGED <<Tables, Process, ops>>

update_solver_rating_query_ratings(p) ==
    /\ proc[p].pc = "update_query_ratings"
    /\ LookupRating(p, proc[p], "update_commit")
    /\ UNCHANGED <<Tables, Process, ops>>

\* a commit that sets the score of every Rating of the loaded row's solver
update_solver_rating_commit_solver(p) ==
    /\ proc[p].pc = "update_commit"
    /\ LET t == proc[p] IN
       /\ ratings' = {IF \E l \in ratings : l.id = t.row /\ l.solver_id = r.solver_id
                      THEN [r EXCEPT !.rating = t.rating] ELSE r : r \in ratings}
       /\ proc' = [proc EXCEPT ![p].pc = "update_refresh"]
    /\ UNCHANGED <<solvers, puzzles, Process, ops>>

\* ratings[0].rating = rating; session.commit().  The unit of work emits
\* UPDATE ratings SET rating WHERE id only when the value differs from the
\* loaded one; an UPDATE that matches no row raises StaleDataError, which
\* nothing catches (500).
update_solver_rating_commit(p) ==
    /\ proc[p].pc = "update_commit"
    /\ LET t == proc[p] IN
       IF t.rating = t.loaded
       THEN /\ ratings' = ratings
            /\ proc' = [proc EXCEPT ![p].pc = "update_refresh"]
       ELSE IF \E r \in ratings : r.id = t.row
       THEN /\ ratings' = {IF r.id = t.row THEN [r EXCEPT !.rating = t.rating] ELSE r : r \in ratings}
            /\ proc' = [proc EXCEPT ![p].pc = "update_refresh"]
       ELSE /\ ratings' = ratings
            /\ proc' = [proc EXCEPT ![p] = Respond(t, 500, NoBody, NoDetail)]
    /\ UNCHANGED <<solvers, puzzles, Process, ops>>

\* updated_rating_entry[puzzle.puzzle] = ratings[0].rating: the commit
\* expired ratings[0], so the row is read again; a row deleted meanwhile
\* raises ObjectDeletedError (500)
update_solver_rating_refresh(p) ==
    /\ proc[p].pc = "update_refresh"
    /\ LET t == proc[p] IN
       IF \E r \in ratings : r.id = t.row
       THEN LET r == CHOOSE r \in ratings : r.id = t.row IN
            proc' = [proc EXCEPT ![p] =
                       Respond(t, 200, SolverEntry(t.solver_name, t.puzzle_name, r.rating), NoDetail)]
       ELSE proc' = [proc EXCEPT ![p] = Respond(t, 500, NoBody, NoDetail)]
    /\ UNCHANGED <<Tables, Process, ops>>

delete_puzzle_rating_query_puzzle(p) ==
    /\ CanCall(p)
    /\ \E puzzle_name \in PuzzleInputs, solver_name \in SolverInputs :
         LookupPuzzle(p, Call("delete", puzzle_name, solver_name, 0), "delete_query_solver")
    /\ ops' = ops + 1
    /\ UNCHANGED <<Tables, Process>>

delete_puzzle_rating_query_solver(p) ==
    /\ proc[p].pc = "delete_query_solver"
    /\ LookupSolver(p, proc[p], "delete_query_ratings")
    /\ UNCHANGED <<Tables, Process, ops>>

delete_puzzle_rating_query_ratings(p) ==
    /\ proc[p].pc = "delete_query_ratings"
    /\ LookupRating(p, proc[p], "delete_commit")
    /\ UNCHANGED <<Tables, Process, ops>>

\* a delete that takes along the Solver row it leaves without ratings
delete_puzzle_rating_cascade(p) ==
    /\ proc[p].pc = "delete_commit"
    /\ ratings' = {r \in ratings : r.id # proc[p].row}
    /\ solvers' = {s \in solvers : \E r \in ratings' : r.solver_id = s.id}
    /\ proc' = [proc EXCEPT ![p] = Respond(proc[p], 204, NoBody, NoDetail)]
    /\ UNCHANGED <<puzzles, Process, ops>>

\* session.delete(ratings[0]); session.commit(); return.  DELETE FROM
\* ratings WHERE id; a DELETE that matches no row only warns.
delete_puzzle_rating_commit(p) ==
    /\ proc[p].pc = "delete_commit"
    /\ ratings' = {r \in ratings : r.id # proc[p].row}
    /\ proc' = [proc EXCEPT ![p] = Respond(proc[p], 204, NoBody, NoDetail)]
    /\ UNCHANGED <<solvers, puzzles, Process, ops>>

(***************************************************************************)
(* The upload file and the bulk load.  A Python dict is the sequence of    *)
(* its <<key, value>> items in insertion order.                            *)
(***************************************************************************)
\* d[k] = v
DictSet(d, k, v) ==
    IF \E i \in 1..Len(d) : d[i][1] = k
    THEN [i \in 1..Len(d) |-> IF d[i][1] = k THEN <<k, v>> ELSE d[i]]
    ELSE Append(d, <<k, v>>)

Keys(d) == {d[i][1] : i \in 1..Len(d)}

\* the "puzzles" objects a record may hold: one to n ratings, the keys of
\* one object distinct
RECURSIVE PuzzleDicts(_)
PuzzleDicts(n) ==
    IF n = 0 THEN {<<>>}
    ELSE PuzzleDicts(n - 1) \cup
         {Append(d, <<k, v>>) : d \in {x \in PuzzleDicts(n - 1) : Len(x) = n - 1},
                                k \in PuzzleInputs, v \in Scores}

SolverDicts(n) ==
    {[name |-> name, puzzles |-> d] :
        name \in SolverInputs,
        d \in {x \in PuzzleDicts(n) : Len(x) >= 1 /\ Cardinality(Keys(x)) = Len(x)}}

RECURSIVE Entries(_)
Entries(file) ==
    IF file = <<>> THEN 0 ELSE Len(Head(file).puzzles) + Entries(Tail(file))

\* json.load(upload_file) of a file that passes validate(): the lists of
\* records that hold at most n ratings in all
RECURSIVE FilesOf(_)
FilesOf(n) ==
    IF n = 0 THEN {<<>>}
    ELSE {<<>>} \cup
         UNION {{<<r>> \o f : f \in FilesOf(n - Len(r.puzzles))} : r \in SolverDicts(n)}

Files == FilesOf(MaxEntries)

\* {puzzle.title(): rating for puzzle, rating in solver_dict["puzzles"].items()}
RECURSIVE TitleKeys(_)
TitleKeys(d) ==
    IF d = <<>> THEN <<>>
    ELSE DictSet(TitleKeys(SubSeq(d, 1, Len(d) - 1)), Title(d[Len(d)][1]), d[Len(d)][2])

\* a parse_solvers_file that appends the records as the file gives them
parse_solvers_file_verbatim(file) ==
    [i \in 1..Len(file) |-> [name |-> file[i].name, puzzles |-> file[i].puzzles]]

\* the loop of parse_solvers_file: every record with its name and its
\* puzzle names title-cased
parse_solvers_file(file) ==
    [i \in 1..Len(file) |->
        [name |-> Title(file[i].name), puzzles |-> TitleKeys(file[i].puzzles)]]

\* puzzles_by_solver[solver["name"]] = solver["puzzles"], record by record
RECURSIVE create_puzzles_by_solver(_)
create_puzzles_by_solver(records) ==
    IF records = <<>> THEN <<>>
    ELSE LET n == Len(records) IN
         DictSet(create_puzzles_by_solver(SubSeq(records, 1, n - 1)),
                 records[n].name, records[n].puzzles)

\* the tables as add_ratings sees them inside its session
Store(s, z, r) == [solvers |-> s, puzzles |-> z, ratings |-> r]

\* rating = query(Rating).filter_by(solver_id, puzzle_id).first(): insert
\* when there is none, else rating.rating = value
Upsert(st, solver_id, puzzle_id, value) ==
    IF RatingRows(st.ratings, solver_id, puzzle_id) = {}
    THEN [st EXCEPT !.ratings = @ \cup {Rating(NewRatingId(@, {}), solver_id, puzzle_id, value)}]
    ELSE [st EXCEPT !.ratings =
            {IF r.solver_id = solver_id /\ r.puzzle_id = puzzle_id
             THEN [r EXCEPT !.rating = value] ELSE r : r \in @}]

\* the inner loop of add_ratings: the stores it can end in
RECURSIVE AddPuzzleRatings(_, _, _)
AddPuzzleRatings(solver_id, puzzle_ratings, st) ==
    IF puzzle_ratings = <<>> THEN {st}
    ELSE LET puzzle_name == Head(puzzle_ratings)[1]
             value == Head(puzzle_ratings)[2]
         IN  UNION {
               LET st1 == IF found = 0
                          THEN [st EXCEPT !.puzzles = @ \cup {Puzzle(NewId(@), puzzle_name)}]
                          ELSE st
                   puzzle_id == IF found = 0 THEN NewId(st.puzzles) ELSE found
               IN  AddPuzzleRatings(solver_id, Tail(puzzle_ratings),
                                    Upsert(st1, solver_id, puzzle_id, value))
               : found \in PuzzleFirst(st.puzzles, puzzle_name)}

\* add_ratings(puzzles_by_solver, session): the stores it can end in
RECURSIVE add_ratings(_, _)
add_ratings(puzzles_by_solver, st) ==
    IF puzzles_by_solver = <<>> THEN {st}
    ELSE LET solver_name == Head(puzzles_by_solver)[1]
             puzzle_ratings == Head(puzzles_by_solver)[2]
         IN  UNION {
               LET st1 == IF found = 0
                          THEN [st EXCEPT !.solvers = @ \cup {Solver(NewId(@), solver_name)}]
                          ELSE st
                   solver_id == IF found = 0 THEN NewId(st.solvers) ELSE found
               IN  UNION {add_ratings(Tail(puzzles_by_solver), st2) :
                            st2 \in AddPuzzleRatings(solver_id, puzzle_ratings, st1)}
               : found \in SolverFirst(st.solvers, solver_name)}

\* initialize_ratings_table: add_ratings in one session, then commit
initialize_ratings_table(puzzles_by_solver) ==
    add_ratings(puzzles_by_solver, Store(solvers, puzzles, ratings))

(***************************************************************************)
(* The process: run, then shutdown in the finally clause.                  *)
(***************************************************************************)
\* run(engine, args) up to uvicorn.run: the file is parsed, an empty list
\* raises ValueError (and the finally clause runs shutdown), otherwise the
\* ratings are loaded and committed
run(file) ==
    /\ phase = "down"
    /\ ops + Entries(file) <= MaxOps
    /\ ops' = ops + Entries(file)
    /\ IF parse_solvers_file(file) = <<>>
       THEN /\ ratings' = {}
            /\ UNCHANGED <<solvers, puzzles, phase, proc, solvers_puzzles_list, Attributes>>
       ELSE /\ solvers_puzzles_list' = parse_solvers_file(file)
            /\ \E st \in initialize_ratings_table(create_puzzles_by_solver(solvers_puzzles_list')) :
                 /\ solvers' = st.solvers
                 /\ puzzles' = st.puzzles
                 /\ ratings' = st.ratings
            /\ phase' = "starting"
            /\ UNCHANGED <<proc, Attributes>>

(***************************************************************************)
(* Upload files that validate() may reject.  A JSON record is given with   *)
(* the fields it has, the type of its name, and its puzzles object.        *)
(***************************************************************************)
JString(s) == [type |-> "string", value |-> s]

\* the JSON number 123
JNumber == [type |-> "number", value |-> <<"1", "2", "3">>]

JRecord(fields, name, puzzle_ratings) ==
    [fields |-> fields, name |-> name, puzzles |-> puzzle_ratings]

\* the JSON text of an upload file given as a list of records
Json(file) ==
    [i \in 1..Len(file) |->
        JRecord({"name", "puzzles"}, JString(file[i].name), file[i].puzzles)]

\* the ratings the schema accepts
SchemaMinimum == 1

SchemaMaximum == 10

\* validate(instance=solvers_list, schema=schema) passes: every record has
\* a string name and a puzzles object of at least one rating, every rating
\* an integer from 1 to 10
validate(upload) ==
    \A i \in 1..Len(upload) :
       /\ {"name", "puzzles"} \subseteq upload[i].fields
       /\ upload[i].name.type = "string"
       /\ Len(upload[i].puzzles) >= 1
       /\ \A j \in 1..Len(upload[i].puzzles) :
             upload[i].puzzles[j][2] \in SchemaMinimum..SchemaMaximum

\* records that pass, and one record for each way of failing: a name that
\* is not a string, a rating below and a rating above the range, no puzzles
\* field, an empty puzzles object
GoodRecords ==
    {JRecord({"name", "puzzles"}, JString(name), <<<<puzzle_name, 1>>>>) :
        name \in SolverInputs, puzzle_name \in {<<"g", "o">>}}

BadRecords ==
    {JRecord({"name", "puzzles"}, JNumber, <<<<<<"g", "o">>, 1>>>>),
     JRecord({"name", "puzzles"}, JString(<<"e", "M">>), <<<<<<"g", "o">>, SchemaMinimum - 1>>>>),
     JRecord({"name", "puzzles"}, JString(<<"e", "M">>), <<<<<<"g", "o">>, SchemaMaximum + 1>>>>),
     JRecord({"name"}, JString(<<"e", "M">>), <<>>),
     JRecord({"name", "puzzles"}, JString(<<"e", "M">>), <<>>)}

\* upload files of one or two records
Uploads ==
    LET pool == GoodRecords \cup BadRecords IN
    {<<r>> : r \in pool} \cup {<<r1, r2>> : r1 \in pool, r2 \in pool}

\* json.load of an upload whose records have the fields and types that the
\* loop of parse_solvers_file reads
Plain(upload) ==
    [i \in 1..Len(upload) |->
        [name |-> upload[i].name.value, puzzles |-> upload[i].puzzles]]

\* a run whose parse_solvers_file goes without validate(): a record with no
\* string name or no puzzles field raises in the loop (nothing is written,
\* the finally clause runs shutdown); any other file is loaded and served
run_unvalidated(upload) ==
    /\ phase = "down"
    /\ ops < MaxOps
    /\ ~validate(upload)
    /\ ops' = ops + 1
    /\ IF \E i \in 1..Len(upload) :
             upload[i].name.type # "string" \/ "puzzles" \notin upload[i].fields
       THEN /\ ratings' = {}
            /\ UNCHANGED <<solvers, puzzles, phase, proc, solvers_puzzles_list, Attributes>>
       ELSE /\ solvers_puzzles_list' = parse_solvers_file(Plain(upload))
            /\ \E st \in initialize_ratings_table(create_puzzles_by_solver(solvers_puzzles_list')) :
                 /\ solvers' = st.solvers
                 /\ puzzles' = st.puzzles
                 /\ ratings' = st.ratings
            /\ phase' = "starting"
            /\ UNCHANGED <<proc, Attributes>>

\* run(engine, args) on a file that validate() rejects: ValidationError is
\* raised in parse_solvers_file before its loop and before any session is
\* opened; __main__ prints it and the finally clause runs shutdown
run_rejected(upload) ==
    /\ phase = "down"
    /\ ops < MaxOps
    /\ ~validate(upload)
    /\ ops' = ops + 1
    /\ ratings' = {}
    /\ UNCHANGED <<solvers, puzzles, phase, proc, solvers_puzzles_list, Attributes>>

\* uvicorn.run(app, ...): the server takes requests; run's locals are not
\* read again
uvicorn_run ==
    /\ phase = "starting"
    /\ phase' = "serving"
    /\ solvers_puzzles_list' = <<>>
    /\ UNCHANGED <<Tables, ops, proc, Attributes>>

\* a shutdown that empties the solvers table instead of the ratings table
shutdown_solvers ==
    /\ phase = "serving"
    /\ \A p \in Procs : ~InFlight(p)
    /\ solvers' = {}
    /\ phase' = "down"
    /\ proc' = [p \in Procs |-> Idle]
    /\ solvers_puzzles_list' = <<>>
    /\ UNCHANGED <<ratings, puzzles, ops, Attributes>>

\* uvicorn.run returns once the handlers in flight have answered; the
\* finally clause runs shutdown(engine): query(Rating).delete(), commit
shutdown ==
    /\ phase = "serving"
    /\ \A p \in Procs : ~InFlight(p)
    /\ ratings' = {}
    /\ phase' = "down"
    /\ proc' = [p \in Procs |-> Idle]
    /\ solvers_puzzles_list' = <<>>
    /\ UNCHANGED <<solvers, puzzles, ops, Attributes>>

\* the process is killed: no finally clause runs, the database keeps what
\* was committed
Kill ==
    /\ phase \in {"starting", "serving"}
    /\ phase' = "down"
    /\ proc' = [p \in Procs |-> Idle]
    /\ solvers_puzzles_list' = <<>>
    /\ UNCHANGED <<Tables, ops, Attributes>>

Init ==
    /\ solvers = {}
    /\ puzzles = {}
    /\ ratings = {}
    /\ phase = "down"
    /\ ops = 0
    /\ proc = [p \in Procs |-> Idle]
    /\ solvers_puzzles_list = <<>>
    /\ games_by_player = Unset
    /\ all_player_games = Unset

Next ==
    \/ \E file \in Files : run(file)
    \/ \E upload \in Uploads : run_rejected(upload)
    \/ uvicorn_run
    \/ shutdown
    \/ Kill
    \/ \E p \in Procs : add_puzzle_rating_query_puzzle(p)
    \/ \E p \in Procs : add_puzzle_rating_query_solver(p)
    \/ \E p \in Procs : add_puzzle_rating_new_puzzle(p)
    \/ \E p \in Procs : add_puzzle_rating_new_solver(p)
    \/ \E p \in Procs : add_puzzle_rating_insert(p)
    \/ \E p \in Procs : update_solver_rating_query_puzzle(p)
    \/ \E p \in Procs : update_solver_rating_query_solver(p)
    \/ \E p \in Procs : update_solver_rating_query_ratings(p)
    \/ \E p \in Procs : update_solver_rating_commit(p)
    \/ \E p \in Procs : update_solver_rating_refresh(p)
    \/ \E p \in Procs : delete_puzzle_rating_query_puzzle(p)
    \/ \E p \in Procs : delete_puzzle_rating_query_solver(p)
    \/ \E p \in Procs : delete_puzzle_rating_query_ratings(p)
    \/ \E p \in Procs : delete_puzzle_rating_commit(p)

Spec == Init /\ [][Next]_vars

(***************************************************************************)
(* The read endpoints, as the set of responses a call may get in the       *)
(* current state (.first() may return any matching row, and a dict filled  *)
(* from rows in query order keeps the last value written under a key).     *)
(***************************************************************************)
Ok(body) == [status |-> 200, body |-> body, detail |-> NoDetail]

NotFound(body, detail) == [status |-> 404, body |-> body, detail |-> detail]

\* f"{puzzle}" of a Puzzle row: the object's repr, not its name
ObjectRepr == <<"<", "P", "u", "z", "z", "l", "e", ">">>

\* the dicts a loop "d[key] = rating" over <<key, rating>> items in query
\* order may build
DictsOver(items) ==
    {d \in [{i[1] : i \in items} -> {i[2] : i \in items}] :
        \A k \in DOMAIN d : <<k, d[k]>> \in items}

\* GET /api/solvers/{solver_name}
get_solver(solver_name) ==
    LET name == Title(solver_name) IN
    UNION {
      IF found = 0
      THEN {NotFound(<<>>, SolverNotFound(name))}
      ELSE LET solver_ratings == {r \in ratings : r.solver_id = found} IN
           IF solver_ratings = {}
           THEN {NotFound(<<>>, [text |-> "Solver {} has not rated any puzzles.",
                                 names |-> <<name>>])}
           ELSE {Ok(d) : d \in DictsOver({<<PuzzleNameOf(r), r.rating>> : r \in solver_ratings})}
      : found \in SolverFirst(solvers, name)}

\* GET /api/puzzles/: every puzzle name with the list of its ratings, the
\* list given as a bag (its order is the query's)
get_puzzles ==
    [name \in {PuzzleNameOf(r) : r \in ratings} |->
        LET rows == {r \in ratings : PuzzleNameOf(r) = name} IN
        [v \in {r.rating : r \in rows} |-> Cardinality({r \in rows : r.rating = v})]]

\* GET /api/puzzles/{puzzle_name}
get_puzzle_ratings(puzzle_name) ==
    LET name == Title(puzzle_name) IN
    UNION {
      IF found = 0
      THEN {NotFound(<<>>, PuzzleNotFound(name))}
      ELSE LET puzzle_ratings == {r \in ratings : r.puzzle_id = found} IN
           IF puzzle_ratings = {}
           THEN {NotFound(<<>>, [text |-> "Puzzle {} has not been rated.",
                                 names |-> <<ObjectRepr>>])}
           ELSE {Ok(d) : d \in DictsOver({<<SolverNameOf(r), r.rating>> : r \in puzzle_ratings})}
      : found \in PuzzleFirst(puzzles, name)}

\* GET /api/puzzles/{puzzle_name}/{solver_name}
get_solver_rating(puzzle_name, solver_name) ==
    LET pname == Title(puzzle_name)
        sname == Title(solver_name)
    IN  UNION {
          IF solver = 0
          THEN {NotFound(0, SolverNotFound(sname))}
          ELSE UNION {
                 IF puzzle = 0
                 THEN {NotFound(0, PuzzleNotFound(pname))}
                 ELSE LET rows == RatingRows(ratings, solver, puzzle) IN
                      IF rows = {}
                      THEN {NotFound(0, NotRatedBy(pname, sname))}
                      ELSE {Ok(r.rating) : r \in rows}
                 : puzzle \in PuzzleFirst(puzzles, pname)}
          : solver \in SolverFirst(solvers, sname)}

\* GET /api/solvers/: every solver name that has ratings, with the dict of
\* its ratings by puzzle name
get_solvers ==
    LET names == {SolverNameOf(r) : r \in ratings}
        dicts(name) ==
            DictsOver({<<PuzzleNameOf(r), r.rating>> :
                         r \in {x \in ratings : SolverNameOf(x) = name}})
    IN  {Ok(f) : f \in {g \in [names -> UNION {dicts(name) : name \in names}] :
                          \A name \in names : g[name] \in dicts(name)}}

(***************************************************************************)
(* The server taking one request at a time: the thread t1 serves every     *)
(* request, so a request comes in when the one before it was answered.  A  *)
(* read handler runs its queries in one step; it writes nothing.           *)
(***************************************************************************)
\* the thread answers a read: the request and the response sent
Answered(op, puzzle_name, solver_name, resp) ==
    Respond(Call(op, puzzle_name, solver_name, 0), resp.status, resp.body, resp.detail)

serve_get_solvers(p) ==
    /\ CanCall(p)
    /\ \E resp \in get_solvers :
         proc' = [proc EXCEPT ![p] = Answered("get_solvers", <<>>, <<>>, resp)]
    /\ ops' = ops + 1
    /\ UNCHANGED <<Tables, Process>>

serve_get_solver(p) ==
    /\ CanCall(p)
    /\ \E solver_name \in SolverInputs : \E resp \in get_solver(solver_name) :
         proc' = [proc EXCEPT ![p] = Answered("get_solver", <<>>, solver_name, resp)]
    /\ ops' = ops + 1
    /\ UNCHANGED <<Tables, Process>>

serve_get_puzzles(p) ==
    /\ CanCall(p)
    /\ proc' = [proc EXCEPT ![p] = Answered("get_puzzles", <<>>, <<>>, Ok(get_puzzles))]
    /\ ops' = ops + 1
    /\ UNCHANGED <<Tables, Process>>

serve_get_puzzle_ratings(p) ==
    /\ CanCall(p)
    /\ \E puzzle_name \in PuzzleInputs : \E resp \in get_puzzle_ratings(puzzle_name) :
         proc' = [proc EXCEPT ![p] = Answered("get_puzzle_ratings", puzzle_name, <<>>, resp)]
    /\ ops' = ops + 1
    /\ UNCHANGED <<Tables, Process>>

\* a get_solver_rating that looks its names up the way add_puzzle_rating
\* does: a name without a row gets one
get_solver_rating_or_create(p) ==
    /\ CanCall(p)
    /\ \E puzzle_name \in PuzzleInputs, solver_name \in SolverInputs :
         \E resp \in get_solver_rating(puzzle_name, solver_name) :
            /\ proc' = [proc EXCEPT ![p] =
                          Answered("get_solver_rating", puzzle_name, solver_name, resp)]
            /\ solvers' = IF SolverFirst(solvers, Title(solver_name)) = {0}
                          THEN solvers \cup {Solver(NewId(solvers), Title(solver_name))}
                          ELSE solvers
    /\ ops' = ops + 1
    /\ UNCHANGED <<puzzles, ratings, Process>>

serve_get_solver_rating(p) ==
    /\ CanCall(p)
    /\ \E puzzle_name \in PuzzleInputs, solver_name \in SolverInputs :
         \E resp \in get_solver_rating(puzzle_name, solver_name) :
            proc' = [proc EXCEPT ![p] =
                       Answered("get_solver_rating", puzzle_name, solver_name, resp)]
    /\ ops' = ops + 1
    /\ UNCHANGED <<Tables, Process>>

Reads == {"get_solvers", "get_solver", "get_puzzles", "get_puzzle_ratings",
          "get_solver_rating"}

NextSeq ==
    \/ \E file \in Files : run(file)
    \/ \E upload \in Uploads : run_rejected(upload)
    \/ uvicorn_run
    \/ shutdown
    \/ Kill
    \/ serve_get_solvers("t1")
    \/ serve_get_solver("t1")
    \/ serve_get_puzzles("t1")
    \/ serve_get_puzzle_ratings("t1")
    \/ serve_get_solver_rating("t1")
    \/ add_puzzle_rating_query_puzzle("t1")
    \/ add_puzzle_rating_query_solver("t1")
    \/ add_puzzle_rating_new_puzzle("t1")
    \/ add_puzzle_rating_new_solver("t1")
    \/ add_puzzle_rating_insert("t1")
    \/ update_solver_rating_query_puzzle("t1")
    \/ update_solver_rating_query_solver("t1")
    \/ update_solver_rating_query_ratings("t1")
    \/ update_solver_rating_commit("t1")
    \/ update_solver_rating_refresh("t1")
    \/ delete_puzzle_rating_query_puzzle("t1")
    \/ delete_puzzle_rating_query_solver("t1")
    \/ delete_puzzle_rating_query_ratings("t1")
    \/ delete_puzzle_rating_commit("t1")

SpecSeq == Init /\ [][NextSeq]_vars

(***************************************************************************)
(* Board_Game_App.py, the in-memory iteration: the ratings live in         *)
(* app.games_by_player, a dict from player name to the dict of that        *)
(* player's ratings by game, and app.all_player_games, the list of rated   *)
(* games computed at start-up.  Names are normalized by str.capitalize().  *)
(* A dict is the function from its keys to its values.  One request is     *)
(* served at a time; thread t1 keeps the response.                         *)
(***************************************************************************)
\* str.capitalize(): the first character uppercased, the others lowercased
Capitalize(s) ==
    [i \in 1..Len(s) |-> IF i = 1 THEN ToUpper(s[i]) ELSE ToLower(s[i])]

\* the player names and game names that requests and upload files carry
PlayerInputs == SolverInputs

GameInputs == PuzzleInputs

\* {game.capitalize(): rating for game, rating in person_dict["Games"].items()}
RECURSIVE CapitalizeKeys(_)
CapitalizeKeys(d) ==
    IF d = <<>> THEN <<>>
    ELSE DictSet(CapitalizeKeys(SubSeq(d, 1, Len(d) - 1)),
                 Capitalize(d[Len(d)][1]), d[Len(d)][2])

\* the dict with the given items
ItemValue(d, k) == d[CHOOSE i \in 1..Len(d) : d[i][1] = k][2]

GamesOf(d) == [k \in Keys(d) |-> ItemValue(d, k)]

\* the loop of parse_players_file: every record with its name and its game
\* names capitalized (a file's record gives the games object as "puzzles")
parse_players_file(file) ==
    [i \in 1..Len(file) |->
        [name |-> Capitalize(file[i].name),
         games |-> GamesOf(CapitalizeKeys(file[i].puzzles))]]

\* d[k] = v on a dict
Assign(d, k, v) == [x \in DOMAIN d \cup {k} |-> IF x = k THEN v ELSE d[x]]

\* d.pop(k)
Pop(d, k) == [x \in DOMAIN d \ {k} |-> d[x]]

\* games_by_player[player["Name"]] = player["Games"], record by record
RECURSIVE create_games_by_player(_)
create_games_by_player(records) ==
    IF records = <<>> THEN <<>>
    ELSE LET n == Len(records) IN
         Assign(create_games_by_player(SubSeq(records, 1, n - 1)),
                records[n].name, records[n].games)

\* all_games(games_by_player): the games that some player's dict has as a
\* key, list(set(...)), taken as a set
all_games(by_player) == UNION {DOMAIN by_player[name] : name \in DOMAIN by_player}

GameNotFound(game) == [text |-> "Game {} not found.", names |-> <<game>>]

PlayerNotFound(player_name) == [text |-> "Player {} not found.", names |-> <<player_name>>]

GameNotRatedBy(game, player_name) ==
    [text |-> "Game {} not rated by {}.", names |-> <<game, player_name>>]

GameAlreadyRated(game, player_name) ==
    [text |-> "Game {} has already been rated by {}.", names |-> <<game, player_name>>]

\* PlayerEntry(Name=player_name, Games=app.games_by_player[player_name])
PlayerEntry(name, games) == [name |-> name, games |-> games]

\* the thread has answered a request for the capitalized names
Served(op, game, player_name, rating, status, body, detail) ==
    [Idle EXCEPT !.pc = "done", !.op = op, !.puzzle_name = game,
                 !.solver_name = player_name, !.rating = rating,
                 !.status = status, !.body = body, !.detail = detail]

\* run(args) of Board_Game_App.py: the file is parsed, an empty list raises
\* ValueError (printed, the process ends), otherwise the two attributes are
\* assigned and uvicorn.run serves
mem_run(file) ==
    /\ phase = "down"
    /\ ops + Entries(file) <= MaxOps
    /\ ops' = ops + Entries(file)
    /\ IF parse_players_file(file) = <<>>
       THEN UNCHANGED <<games_by_player, all_player_games, phase>>
       ELSE LET by_player == create_games_by_player(parse_players_file(file)) IN
            /\ games_by_player' = <<by_player>>
            /\ all_player_games' = <<all_games(by_player)>>
            /\ phase' = "serving"
    /\ UNCHANGED <<Tables, proc, solvers_puzzles_list>>

\* the server process ends: its attributes go with it
mem_exit ==
    /\ phase = "serving"
    /\ phase' = "down"
    /\ games_by_player' = Unset
    /\ all_player_games' = Unset
    /\ proc' = [p \in Procs |-> Idle]
    /\ UNCHANGED <<Tables, ops, solvers_puzzles_list>>

\* GET /api/games/
mem_get_games == all_player_games[1]

\* GET /api/games/{game}
mem_get_game_ratings(game_input) ==
    LET game == Capitalize(game_input)
        by_player == games_by_player[1]
    IN  IF game \notin all_player_games[1]
        THEN NotFound(<<>>, GameNotFound(game))
        ELSE Ok([name \in {n \in DOMAIN by_player : game \in DOMAIN by_player[n]} |->
                    by_player[name][game]])

\* GET /api/games/{game}/{player_name}
mem_get_player_rating(game_input, player_input) ==
    LET game == Capitalize(game_input)
        player_name == Capitalize(player_input)
        by_player == games_by_player[1]
    IN  IF player_name \notin DOMAIN by_player
        THEN NotFound(0, PlayerNotFound(player_name))
        ELSE IF game \notin DOMAIN by_player[player_name]
        THEN NotFound(0, GameNotRatedBy(game, player_name))
        ELSE Ok(by_player[player_name][game])

\* PATCH /api/games/{game}/{player_name} on a dict of ratings by player: the
\* dict it leaves and the response
UpdateIn(by_player, game, player_name, rating) ==
    IF player_name \notin DOMAIN by_player
    THEN [dict |-> by_player, status |-> 404, body |-> NoBody,
          detail |-> PlayerNotFound(player_name)]
    ELSE IF game \notin DOMAIN by_player[player_name]
    THEN [dict |-> by_player, status |-> 404, body |-> NoBody,
          detail |-> GameNotRatedBy(game, player_name)]
    ELSE LET after == Assign(by_player, player_name,
                             Assign(by_player[player_name], game, rating))
         IN  [dict |-> after, status |-> 200,
              body |-> PlayerEntry(player_name, after[player_name]), detail |-> NoDetail]

\* POST /api/games/{game}/{player_name}
AddIn(by_player, game, player_name, rating) ==
    IF player_name \in DOMAIN by_player /\ game \in DOMAIN by_player[player_name]
    THEN [dict |-> by_player, status |-> 409, body |-> NoBody,
          detail |-> GameAlreadyRated(game, player_name)]
    ELSE LET games == IF player_name \in DOMAIN by_player
                      THEN Assign(by_player[player_name], game, rating)
                      ELSE Assign(<<>>, game, rating)
             after == Assign(by_player, player_name, games)
         IN  [dict |-> after, status |-> 201,
              body |-> PlayerEntry(player_name, after[player_name]), detail |-> NoDetail]

\* DELETE /api/games/{game}/{player_name}
DeleteIn(by_player, game, player_name) ==
    IF player_name \notin DOMAIN by_player
    THEN [dict |-> by_player, status |-> 404, body |-> NoBody,
          detail |-> PlayerNotFound(player_name)]
    ELSE IF game \notin DOMAIN by_player[player_name]
    THEN [dict |-> by_player, status |-> 404, body |-> NoBody,
          detail |-> GameNotRatedBy(game, player_name)]
    ELSE LET after == Assign(by_player, player_name, Pop(by_player[player_name], game))
         IN  [dict |-> after, status |-> 200,
              body |-> PlayerEntry(player_name, after[player_name]), detail |-> NoDetail]

\* a mutation handler runs on app.games_by_player and answers; it does not
\* touch app.all_player_games
MemServe(op, game, player_name, rating, out) ==
    /\ games_by_player' = <<out.dict>>
    /\ proc' = [proc EXCEPT !["t1"] =
                  Served(op, game, player_name, rating, out.status, out.body, out.detail)]
    /\ ops' = ops + 1
    /\ UNCHANGED <<Tables, phase, solvers_puzzles_list, all_player_games>>

mem_update_player_rating ==
    /\ CanCall("t1")
    /\ \E game \in GameInputs, player_name \in PlayerInputs, rating \in Scores :
         MemServe("update", Capitalize(game), Capitalize(player_name), rating,
                  UpdateIn(games_by_player[1], Capitalize(game), Capitalize(player_name), rating))

mem_add_game_rating ==
    /\ CanCall("t1")
    /\ \E game \in GameInputs, player_name \in PlayerInputs, rating \in Scores :
         MemServe("add", Capitalize(game), Capitalize(player_name), rating,
                  AddIn(games_by_player[1], Capitalize(game), Capitalize(player_name), rating))

mem_delete_game_rating ==
    /\ CanCall("t1")
    /\ \E game \in GameInputs, player_name \in PlayerInputs :
         MemServe("delete", Capitalize(game), Capitalize(player_name), 0,
                  DeleteIn(games_by_player[1], Capitalize(game), Capitalize(player_name)))

NextMem ==
    \/ \E file \in Files : mem_run(file)
    \/ mem_exit
    \/ mem_update_player_rating
    \/ mem_add_game_rating
    \/ mem_delete_game_rating

SpecMem == Init /\ [][NextMem]_vars

(***************************************************************************)
(* board_game_app.py, the single-table iteration: table ratings has the    *)
(* columns id, player, game, rating, with (player, game) unique.  The reads *)
(* query the table; the mutation endpoints use app.games_by_player, an     *)
(* attribute that this file never assigns.  The file's parse_players_file  *)
(* and create_games_by_player are those of Board_Game_App.py.              *)
(***************************************************************************)
\* Rating(player=player, game=game, rating=value)
BoardRating(id, player, game, rating) ==
    [id |-> id, player |-> player, game |-> game, rating |-> rating]

\* session.query(Rating).filter_by(game=game, player=player_name).all()
RowsOf(table, game, player_name) ==
    {row \in table : row.game = game /\ row.player = player_name}

\* the (player, game, rating) items of a dict of ratings by player
ItemsOf(by_player) ==
    UNION {{<<name, game, by_player[name][game]>> : game \in DOMAIN by_player[name]} :
              name \in DOMAIN by_player}

\* session.add(Rating(...)) for every item
RECURSIVE AddAll(_, _)
AddAll(table, items) ==
    IF items = {} THEN table
    ELSE LET item == CHOOSE i \in items : TRUE IN
         AddAll(table \cup {BoardRating(NewId(table), item[1], item[2], item[3])},
                items \ {item})

\* the commit of initialize_ratings_table raises IntegrityError when a new
\* row has the player and game of a row of the table
CommitFails(table, by_player) ==
    \E item \in ItemsOf(by_player) : RowsOf(table, item[2], item[1]) # {}

\* initialize_ratings_table of board_game_app.py: one transaction adds a row
\* per item; an IntegrityError of the commit is caught and printed, and the
\* table stays as it was
tbl_initialize_ratings_table(table, by_player) ==
    IF CommitFails(table, by_player) THEN table
    ELSE AddAll(table, ItemsOf(by_player))

\* run(engine, args) up to uvicorn.run; an empty list raises ValueError, and
\* the finally clause of the main block calls shutdown
tbl_run(file) ==
    /\ phase = "down"
    /\ ops + Entries(file) <= MaxOps
    /\ ops' = ops + Entries(file)
    /\ IF parse_players_file(file) = <<>>
       THEN /\ ratings' = {}
            /\ UNCHANGED <<phase, solvers_puzzles_list>>
       ELSE /\ solvers_puzzles_list' = parse_players_file(file)
            /\ ratings' = tbl_initialize_ratings_table(
                              ratings, create_games_by_player(parse_players_file(file)))
            /\ phase' = "starting"
    /\ UNCHANGED <<solvers, puzzles, proc, Attributes>>

\* uvicorn.run(app, ...), the statement after initialize_ratings_table
tbl_uvicorn_run ==
    /\ phase = "starting"
    /\ phase' = "serving"
    /\ solvers_puzzles_list' = <<>>
    /\ UNCHANGED <<Tables, ops, proc, Attributes>>

\* the server stops and the finally clause runs shutdown(engine):
\* session.query(Rating).delete()
tbl_shutdown ==
    /\ phase = "serving"
    /\ ratings' = {}
    /\ phase' = "down"
    /\ proc' = [p \in Procs |-> Idle]
    /\ solvers_puzzles_list' = <<>>
    /\ UNCHANGED <<solvers, puzzles, ops, Attributes>>

\* the process is killed: the finally clause does not run and the table
\* keeps its rows
tbl_kill ==
    /\ phase \in {"starting", "serving"}
    /\ phase' = "down"
    /\ proc' = [p \in Procs |-> Idle]
    /\ solvers_puzzles_list' = <<>>
    /\ UNCHANGED <<Tables, ops, Attributes>>

\* GET /api/games/{game}/{player_name} on a table: the possible responses
tbl_get_player_rating(table, game_input, player_input) ==
    LET game == Capitalize(game_input)
        player_name == Capitalize(player_input)
    IN  IF RowsOf(table, game, player_name) = {}
        THEN {NotFound(0, GameNotRatedBy(game, player_name))}
        ELSE {Ok(row.rating) : row \in RowsOf(table, game, player_name)}

\* reading app.games_by_player raises AttributeError while the attribute is
\* not assigned: the request is answered 500
AttributeError(op, game, player_name, rating) ==
    /\ proc' = [proc EXCEPT !["t1"] =
                  Served(op, game, player_name, rating, 500, NoBody, NoDetail)]
    /\ ops' = ops + 1
    /\ UNCHANGED <<Tables, phase, solvers_puzzles_list, Attributes>>

tbl_update_player_rating ==
    /\ CanCall("t1")
    /\ \E game \in GameInputs, player_name \in PlayerInputs, rating \in Scores :
         IF games_by_player = Unset
         THEN AttributeError("update", Capitalize(game), Capitalize(player_name), rating)
         ELSE MemServe("update", Capitalize(game), Capitalize(player_name), rating,
                       UpdateIn(games_by_player[1], Capitalize(game),
                                Capitalize(player_name), rating))

tbl_add_game_rating ==
    /\ CanCall("t1")
    /\ \E game \in GameInputs, player_name \in PlayerInputs, rating \in Scores :
         IF games_by_player = Unset
         THEN AttributeError("add", Capitalize(game), Capitalize(player_name), rating)
         ELSE MemServe("add", Capitalize(game), Capitalize(player_name), rating,
                       AddIn(games_by_player[1], Capitalize(game),
                             Capitalize(player_name), rating))

tbl_delete_game_rating ==
    /\ CanCall("t1")
    /\ \E game \in GameInputs, player_name \in PlayerInputs :
         IF games_by_player = Unset
         THEN AttributeError("delete", Capitalize(game), Capitalize(player_name), 0)
         ELSE MemServe("delete", Capitalize(game), Capitalize(player_name), 0,
                       DeleteIn(games_by_player[1], Capitalize(game),
                                Capitalize(player_name)))

NextBoard ==
    \/ \E file \in Files : tbl_run(file)
    \/ tbl_uvicorn_run
    \/ tbl_shutdown
    \/ tbl_kill
    \/ tbl_update_player_rating
    \/ tbl_add_game_rating
    \/ tbl_delete_game_rating

SpecBoard == Init /\ [][NextBoard]_vars

(***************************************************************************)
(* Claims                                                                  *)
(***************************************************************************)
\* the thread p answers its request in this step
Answers(p) == InFlight(p) /\ proc'[p].pc = "done"

\* the spellings of a name that a request may carry
SolverSpellings(name) == {n \in SolverInputs : Title(n) = name}

PuzzleSpellings(name) == {n \in PuzzleInputs : Title(n) = name}

\* C1: once add_puzzle_rating(P, S, x) has succeeded, a later
\* add_puzzle_rating(P, S, y), issued and run while that Rating exists, is
\* answered 409 and leaves the Rating rows as they were (the score stays x).
C1_SecondAddConflicts ==
    [][\A p, q \in Procs :
         LET t == proc[p] IN
         (/\ p # q
          /\ proc[q].pc = "done" /\ proc[q].op = "add" /\ proc[q].status = 201
          /\ proc[q].puzzle_name = t.puzzle_name /\ proc[q].solver_name = t.solver_name
          /\ t.op = "add" /\ t.rated /\ Answers(p)
          /\ \E r \in RatingsOf(ratings, t.puzzle_name, t.solver_name) :
                r.rating = proc[q].rating)
         => (proc'[p].status = 409 /\ ratings' = ratings)]_vars

\* C2: in every reachable state there is at most one Rating for a pair
\* (solver name, puzzle name).
C2_OneRatingPerPair ==
    \A r1, r2 \in ratings :
        (SolverNameOf(r1) = SolverNameOf(r2) /\ PuzzleNameOf(r1) = PuzzleNameOf(r2))
        => r1 = r2

\* the canonical names that requests and upload files lead to
PuzzleNames == {Title(n) : n \in PuzzleInputs}

SolverNames == {Title(n) : n \in SolverInputs}

\* a store in which every name has one row: two solvers, two puzzles, and
\* either no Rating or Em's rating of Go
RaceSolvers == {Solver(1, <<"E", "m">>), Solver(2, <<"M", "e", "l">>)}

RacePuzzles == {Puzzle(1, <<"G", "o">>), Puzzle(2, <<"A", " ", "B">>)}

InitRace ==
    /\ solvers = RaceSolvers
    /\ puzzles = RacePuzzles
    /\ ratings \in {{}, {Rating(1, 1, 1, 1)}}
    /\ phase = "serving"
    /\ ops = 0
    /\ proc = [p \in Procs |-> Idle]
    /\ solvers_puzzles_list = <<>>
    /\ games_by_player = Unset
    /\ all_player_games = Unset

\* each thread serves one add_puzzle_rating request; the second request
\* comes in while the first is being served
NextRace ==
    \/ \E p \in Procs : proc[p].pc = "idle" /\ add_puzzle_rating_query_puzzle(p)
    \/ \E p \in Procs : add_puzzle_rating_query_solver(p)
    \/ \E p \in Procs : add_puzzle_rating_insert(p)

SpecRace == InitRace /\ [][NextRace]_vars

\* C3: two add_puzzle_rating requests for the same pair run concurrently,
\* the pair's Solver row and Puzzle row exist and the pair has no Rating:
\* when both have answered, one was answered 201 and the other 409 with the
\* "already been rated" message, and the pair has exactly one Rating, which
\* holds the score of the request answered 201.
C3_OneWinner ==
    \A p, q \in Procs :
       (/\ p # q
        /\ proc[p].pc = "done" /\ proc[q].pc = "done"
        /\ proc[p].puzzle_name = proc[q].puzzle_name
        /\ proc[p].solver_name = proc[q].solver_name
        /\ ~proc[p].rated /\ ~proc[q].rated)
       => /\ {proc[p].status, proc[q].status} = {201, 409}
          /\ proc[p].status = 409 =>
                LET pair == RatingsOf(ratings, proc[p].puzzle_name, proc[p].solver_name) IN
                /\ proc[p].detail = AlreadyRated(proc[p].puzzle_name, proc[p].solver_name)
                /\ proc[q].body = SolverEntry(proc[q].solver_name, proc[q].puzzle_name, proc[q].rating)
                /\ Cardinality(pair) = 1
                /\ \A r \in pair : r.rating = proc[q].rating

\* both requests of a race on one unrated pair have answered; they asked for
\* different scores and the request that came in second won
C3_Witness ==
    /\ proc["t1"].pc = "done" /\ proc["t2"].pc = "done"
    /\ proc["t1"].puzzle_name = proc["t2"].puzzle_name
    /\ proc["t1"].solver_name = proc["t2"].solver_name
    /\ proc["t1"].rating # proc["t2"].rating
    /\ proc["t1"].status = 409 /\ proc["t2"].status = 201
    /\ ~proc["t1"].rated /\ ~proc["t2"].rated

\* C4: a lookup step of update_solver_rating or delete_puzzle_rating taken
\* while the pair has no Rating (unknown puzzle, unknown solver, or both
\* known and the pair unrated) leaves the three tables as they were and
\* never goes on to the commit; the lookup of the pair's Rating answers, and
\* every answer given is 404 with one of the three "not found" messages.
C4_MissingPairNotFound ==
    [][\A p \in Procs :
         LET t == proc'[p] IN
         (/\ proc'[p] # proc[p]
          /\ t.op \in {"update", "delete"}
          /\ proc[p].pc \notin {"update_commit", "update_refresh", "delete_commit"}
          /\ RatingsOf(ratings, t.puzzle_name, t.solver_name) = {})
         => /\ UNCHANGED Tables
            /\ t.pc \notin {"update_commit", "update_refresh", "delete_commit"}
            /\ proc[p].pc \in {"update_query_ratings", "delete_query_ratings"} => t.pc = "done"
            /\ t.pc = "done" =>
                  /\ t.status = 404
                  /\ t.body = NoBody
                  /\ t.detail \in {PuzzleNotFound(t.puzzle_name), SolverNotFound(t.solver_name),
                                   NotRatedBy(t.puzzle_name, t.solver_name)}]_vars

\* an update of a known but unrated pair and a delete for an unknown solver
\* were both answered 404, in a store that holds ratings
C4_Witness ==
    /\ proc["t1"].pc = "done" /\ proc["t1"].op = "update" /\ proc["t1"].status = 404
    /\ proc["t1"].detail = NotRatedBy(proc["t1"].puzzle_name, proc["t1"].solver_name)
    /\ proc["t2"].pc = "done" /\ proc["t2"].op = "delete" /\ proc["t2"].status = 404
    /\ proc["t2"].detail = SolverNotFound(proc["t2"].solver_name)
    /\ ratings # {}

\* every spelling of the pair is answered 200 with the score v
Settled(puzzle_name, solver_name, v) ==
    \A pn \in PuzzleSpellings(puzzle_name), sn \in SolverSpellings(solver_name) :
       get_solver_rating(pn, sn) = {Ok(v)}

\* every spelling of the pair is answered 404
Gone(puzzle_name, solver_name) ==
    \A pn \in PuzzleSpellings(puzzle_name), sn \in SolverSpellings(solver_name) :
       \A resp \in get_solver_rating(pn, sn) : resp.status = 404

\* the thread p runs the given step of a handler that serves this pair
StepOn(p, pcs, puzzle_name, solver_name) ==
    /\ proc[p].pc \in pcs
    /\ proc'[p] # proc[p]
    /\ proc'[p].op = proc[p].op
    /\ proc[p].puzzle_name = puzzle_name
    /\ proc[p].solver_name = solver_name

\* the thread p has committed an update, or has answered it 200, and has
\* not taken another request since
Updated(p) ==
    /\ proc[p].op = "update"
    /\ proc[p].pc = "update_refresh" \/ (proc[p].pc = "done" /\ proc[p].status = 200)

\* the thread p has answered a delete 204 and has not taken another request
\* since
Deleted(p) ==
    /\ proc[p].op = "delete"
    /\ proc[p].pc = "done" /\ proc[p].status = 204

\* C5: when update_solver_rating(P, S, y) commits on the Rating it loaded
\* (the row is still there with the score it was loaded with),
\* get_solver_rating answers y for every spelling of P and S; and the answer
\* of get_solver_rating for a pair stays the same over every step of the
\* running server that is not the commit of an update or delete of that pair
\* (checked while the thread that updated the pair has taken no new request).
C5_UpdateIsRead ==
    [][\A p \in Procs, P \in PuzzleNames, S \in SolverNames, v \in Scores :
         (proc[p].puzzle_name = P /\ proc[p].solver_name = S /\ proc[p].rating = v)
         => /\ (/\ proc[p].pc = "update_commit" /\ proc'[p].pc = "update_refresh"
                /\ \E r \in ratings : r.id = proc[p].row /\ r.rating = proc[p].loaded)
               => Settled(P, S, v)'
            /\ (/\ Updated(p)
                /\ phase' = "serving"
                /\ ~\E q \in Procs : StepOn(q, {"update_commit", "delete_commit"}, P, S)
                /\ Settled(P, S, v))
               => Settled(P, S, v)']_vars

\* C6: when delete_puzzle_rating(P, S) commits on the Rating it loaded, it
\* answers 204 with an empty body and get_solver_rating answers 404 for
\* every spelling of P and S; the pair stays unanswerable over every step of
\* the running server that is not the insert of an add_puzzle_rating for the
\* pair (checked while the thread that deleted the pair has taken no new
\* request); and a delete that looks the pair up meanwhile answers 404.
C6_DeleteIsRead ==
    [][\A p \in Procs, P \in PuzzleNames, S \in SolverNames :
         (proc[p].puzzle_name = P /\ proc[p].solver_name = S)
         => /\ (/\ proc[p].pc = "delete_commit" /\ proc'[p].pc = "done"
                /\ \E r \in ratings : r.id = proc[p].row)
               => /\ proc'[p].status = 204 /\ proc'[p].body = NoBody
                  /\ Gone(P, S)'
            /\ (/\ Deleted(p)
                /\ phase' = "serving"
                /\ ~\E q \in Procs : StepOn(q, {"add_insert"}, P, S)
                /\ Gone(P, S))
               => Gone(P, S)'
            /\ (StepOn(p, {"delete_query_ratings"}, P, S) /\ Gone(P, S))
               => proc'[p].status = 404]_vars

\* C7: the commit of delete_puzzle_rating removes the one Rating the handler
\* loaded, a Rating of the pair it was asked to delete, and nothing else:
\* no Solver row and no Puzzle row goes, and get_solver_rating answers the
\* same as before for every other pair.
C7_DeleteRemovesOne ==
    [][\A p \in Procs :
         LET t == proc[p] IN
         (t.pc = "delete_commit" /\ proc'[p].pc = "done")
         => /\ ratings' \subseteq ratings
            /\ ratings \ ratings' = {r \in ratings : r.id = t.row}
            /\ Cardinality(ratings \ ratings') <= 1
            /\ (\E r \in ratings : r.id = t.row) => Cardinality(ratings \ ratings') = 1
            /\ \A r \in ratings \ ratings' :
                  PuzzleNameOf(r) = t.puzzle_name /\ SolverNameOf(r) = t.solver_name
            /\ solvers' = solvers
            /\ puzzles' = puzzles
            /\ \A pn \in PuzzleInputs, sn \in SolverInputs :
                  <<Title(pn), Title(sn)>> # <<t.puzzle_name, t.solver_name>>
                  => get_solver_rating(pn, sn)' = get_solver_rating(pn, sn)]_vars

\* a delete was answered 204; another solver's rating of the same puzzle is
\* still stored, and the solver of the deleted rating is left with no
\* rating but still has its row
C7_Witness ==
    \E p \in Procs :
       LET t == proc[p] IN
       /\ t.pc = "done" /\ t.op = "delete" /\ t.status = 204
       /\ \E r \in ratings : PuzzleNameOf(r) = t.puzzle_name /\ SolverNameOf(r) # t.solver_name
       /\ \A r \in ratings : SolverNameOf(r) # t.solver_name
       /\ \E s \in solvers : s.solver = t.solver_name

\* C8: the keys of get_puzzles() are the puzzle names for which
\* get_puzzle_ratings answers a non-empty mapping; the list under a key
\* holds one score per solver that rates the puzzle, the score
\* get_solver_rating answers; and get_solver(S) holds the pair (P, v)
\* exactly when get_solver_rating(P, S) answers v.
C8_ViewsAgree ==
    /\ \A P \in PuzzleNames :
          P \in DOMAIN get_puzzles
          <=> \A pn \in PuzzleSpellings(P) : \A resp \in get_puzzle_ratings(pn) :
                 resp.status = 200 /\ DOMAIN resp.body # {}
    /\ \A P \in DOMAIN get_puzzles :
          LET raters == {S \in SolverNames : RatingsOf(ratings, P, S) # {}} IN
          /\ BagCardinality(get_puzzles[P]) = Cardinality(raters)
          /\ \A S \in raters : \E v \in DOMAIN get_puzzles[P] : Settled(P, S, v)
    /\ \A sn \in SolverInputs : \A resp \in get_solver(sn) :
          resp.status = 200 =>
             \A P \in PuzzleNames, v \in Scores :
                (P \in DOMAIN resp.body /\ resp.body[P] = v)
                <=> \A pn \in PuzzleSpellings(P) : get_solver_rating(pn, sn) = {Ok(v)}

\* the Rating rows of a pair of names in a store
StoredRatings(st, puzzle_name, solver_name) ==
    {r \in st.ratings :
        /\ \E z \in st.puzzles : z.id = r.puzzle_id /\ z.puzzle = puzzle_name
        /\ \E x \in st.solvers : x.id = r.solver_id /\ x.solver = solver_name}

\* C9: a bulk load leaves, for every pair of the loaded mapping that had at
\* most one Rating, exactly one Rating holding the loaded score (the Rating
\* that was there, when there was one), and loading the same mapping again
\* leaves the store as it is.
C9_LoadIsUpsert ==
    [][(phase = "down" /\ phase' = "starting")
       => LET puzzles_by_solver == create_puzzles_by_solver(solvers_puzzles_list')
              before == Store(solvers, puzzles, ratings)
              after == Store(solvers', puzzles', ratings')
          IN
          /\ \A i \in 1..Len(puzzles_by_solver) :
             \A j \in 1..Len(puzzles_by_solver[i][2]) :
                LET S == puzzles_by_solver[i][1]
                    P == puzzles_by_solver[i][2][j][1]
                    v == puzzles_by_solver[i][2][j][2]
                IN  Cardinality(StoredRatings(before, P, S)) <= 1
                    => /\ Cardinality(StoredRatings(after, P, S)) = 1
                       /\ \A r \in StoredRatings(after, P, S) : r.rating = v
                       /\ \A r \in StoredRatings(before, P, S) :
                             \E r2 \in StoredRatings(after, P, S) : r2.id = r.id
          /\ add_ratings(puzzles_by_solver, after) = {after}]_vars

\* the (canonical solver, score) pairs the parsed records give for a puzzle
Expected(list, puzzle_name) ==
    {<<list[x[1]].name, list[x[1]].puzzles[x[2]][2]>> :
        x \in {y \in (1..Len(list)) \X (1..MaxEntries) :
                 /\ y[2] <= Len(list[y[1]].puzzles)
                 /\ list[y[1]].puzzles[y[2]][1] = puzzle_name}}

\* C10: after the bulk load of a file into a store without ratings (and
\* with one row per name), get_puzzle_ratings answers, for every spelling of
\* a puzzle the file rates, the mapping from each canonical solver name of
\* the file that rates the puzzle to its score (files that give one solver
\* two scores for a puzzle aside).
C10_LoadedPuzzleRatings ==
    [][(/\ phase = "down" /\ phase' = "starting"
        /\ ratings = {}
        /\ \A s1, s2 \in solvers : s1.solver = s2.solver => s1 = s2
        /\ \A z1, z2 \in puzzles : z1.puzzle = z2.puzzle => z1 = z2)
       => \A P \in PuzzleNames :
             LET expected == Expected(solvers_puzzles_list', P) IN
             (/\ expected # {}
              /\ \A e1, e2 \in expected : e1[1] = e2[1] => e1 = e2)
             => \A pn \in PuzzleSpellings(P) :
                   get_puzzle_ratings(pn)'
                     = {Ok([S \in {e[1] : e \in expected} |->
                              (CHOOSE e \in expected : e[1] = S)[2]])}]_vars

\* the (canonical solver, canonical puzzle, score) triples of the parsed
\* records: one per (item, rating) pair of every record
Triples(list) ==
    {<<list[x[1]].name, list[x[1]].puzzles[x[2]][1], list[x[1]].puzzles[x[2]][2]>> :
        x \in {y \in (1..Len(list)) \X (1..MaxEntries) :
                 y[2] <= Len(list[y[1]].puzzles)}}

\* C11: the bulk load at start-up stores a Rating for every (item, rating)
\* pair of every record of the file, also when two records carry names of
\* the same canonical form: the pair of the record's canonical name and the
\* item's canonical name has a Rating, and it holds the record's score when
\* the file gives the pair no other score.
C11_LoadStoresEveryRecord ==
    [][(phase = "down" /\ phase' = "starting")
       => LET after == Store(solvers', puzzles', ratings') IN
          \A e \in Triples(solvers_puzzles_list') :
             /\ StoredRatings(after, e[2], e[1]) # {}
             /\ (\A e2 \in Triples(solvers_puzzles_list') :
                    (e2[1] = e[1] /\ e2[2] = e[2]) => e2 = e)
                => \E r \in StoredRatings(after, e[2], e[1]) : r.rating = e[3]]_vars


\* two spellings that differ only in the case of their letters
SameLetters(n1, n2) ==
    /\ Len(n1) = Len(n2)
    /\ \A i \in 1..Len(n1) : ToLower(n1[i]) = ToLower(n2[i])

\* the pairs of spellings of one name that requests may carry
SolverCasePairs == {x \in SolverInputs \X SolverInputs : SameLetters(x[1], x[2])}

PuzzleCasePairs == {x \in PuzzleInputs \X PuzzleInputs : SameLetters(x[1], x[2])}

\* C12: title-casing a title-cased name changes nothing, and two spellings
\* of a name that differ only in case are the same name to every endpoint:
\* they have one canonical form, every read answers them alike, and every
\* mutation starts from the same request for them.
C12_CaseInsensitive ==
    /\ \A n \in SolverInputs \cup PuzzleInputs : Title(Title(n)) = Title(n)
    /\ \A s \in SolverCasePairs :
          /\ Title(s[1]) = Title(s[2])
          /\ s[1] # s[2] => get_solver(s[1]) = get_solver(s[2])
    /\ \A z \in PuzzleCasePairs :
          /\ Title(z[1]) = Title(z[2])
          /\ z[1] # z[2] => get_puzzle_ratings(z[1]) = get_puzzle_ratings(z[2])
    /\ \A s \in SolverCasePairs, z \in PuzzleCasePairs :
          (s[1] # s[2] \/ z[1] # z[2])
          => /\ get_solver_rating(z[1], s[1]) = get_solver_rating(z[2], s[2])
             /\ \A op \in {"add", "update", "delete"}, v \in Scores :
                   Call(op, z[1], s[1], v) = Call(op, z[2], s[2], v)

\* the pair (Go, Em) is rated and read under the spellings "GO" and "eM",
\* and an update sent for the pair was answered 200
C12_Witness ==
    /\ \E v \in Scores : get_solver_rating(<<"G", "O">>, <<"e", "M">>) = {Ok(v)}
    /\ \A resp \in get_solver(<<"E", "m">>) : resp.status = 200
    /\ \E p \in Procs :
          /\ proc[p].pc = "done" /\ proc[p].op = "update" /\ proc[p].status = 200
          /\ proc[p].solver_name = <<"E", "m">> /\ proc[p].puzzle_name = <<"G", "o">>


\* every Solver and Puzzle name of a store is its own title-casing
Canonical(st) ==
    /\ \A x \in st.solvers : Title(x.solver) = x.solver
    /\ \A z \in st.puzzles : Title(z.puzzle) = z.puzzle

\* C13 (as amended): in every reachable state every stored Solver and Puzzle
\* name equals its own title-casing, and so does every name of the records
\* parse_solvers_file hands to the bulk load.
C13_StoredNamesCanonical ==
    /\ Canonical(Store(solvers, puzzles, ratings))
    /\ \A i \in 1..Len(solvers_puzzles_list) :
          /\ Title(solvers_puzzles_list[i].name) = solvers_puzzles_list[i].name
          /\ \A k \in Keys(solvers_puzzles_list[i].puzzles) : Title(k) = k

\* C13 (as stated): every stored name equals its own title-casing because
\* each find-or-create site normalizes the name it is given: whatever names
\* add_ratings is given, the rows it leaves carry canonical names.
C13_SitesNormalize ==
    /\ Canonical(Store(solvers, puzzles, ratings))
    /\ \A solver_name \in SolverInputs, puzzle_name \in PuzzleInputs :
          \A st \in add_ratings(<<<<solver_name, <<<<puzzle_name, 1>>>>>>>>,
                                Store(solvers, puzzles, ratings)) :
             Canonical(st)

\* the store holds rows made by the bulk load and a row pair made by an
\* add_puzzle_rating that was answered 201
C13_Witness ==
    /\ Cardinality(solvers) >= 2 /\ Cardinality(puzzles) >= 2
    /\ \E p \in Procs :
          /\ proc[p].pc = "done" /\ proc[p].op = "add" /\ proc[p].status = 201
          /\ \E x \in solvers : x.solver = proc[p].solver_name
          /\ \E z \in puzzles : z.puzzle = proc[p].puzzle_name


\* C14: a step in which a thread answers get_solvers, get_solver,
\* get_puzzles, get_puzzle_ratings or get_solver_rating, with 200 or with
\* 404, leaves the Solver, Puzzle and Rating tables as they were; a name
\* that has no row has none afterwards.
C14_ReadsWriteNothing ==
    [][\A p \in Procs :
         (ops' = ops + 1 /\ proc'[p].pc = "done" /\ proc'[p].op \in Reads)
         => /\ solvers' = solvers /\ puzzles' = puzzles /\ ratings' = ratings
            /\ proc'[p].status \in {200, 404}
            /\ \A n \in SolverNames :
                  SolverFirst(solvers, n) = {0} => SolverFirst(solvers', n) = {0}
            /\ \A n \in PuzzleNames :
                  PuzzleFirst(puzzles, n) = {0} => PuzzleFirst(puzzles', n) = {0}]_vars

\* get_solver_rating was answered 404 for a solver name that has no row, in
\* a store that holds ratings, and the name still has no row
C14_Witness ==
    /\ proc["t1"].pc = "done" /\ proc["t1"].op = "get_solver_rating"
    /\ proc["t1"].status = 404
    /\ proc["t1"].detail = SolverNotFound(proc["t1"].solver_name)
    /\ SolverFirst(solvers, proc["t1"].solver_name) = {0}
    /\ ratings # {}


\* C15: get_solver(S) is answered 404 exactly when no Rating is stored for
\* the solver name S (the name was never seen, or all its ratings were
\* deleted) and is answered a non-empty mapping otherwise; the same holds
\* of get_puzzle_ratings(P) and the puzzle name P.
C15_NotFoundIffUnrated ==
    /\ \A sn \in SolverInputs : \A resp \in get_solver(sn) :
          /\ resp.status = 404 <=> ~\E r \in ratings : SolverNameOf(r) = Title(sn)
          /\ resp.status # 404 => (resp.status = 200 /\ DOMAIN resp.body # {})
    /\ \A pn \in PuzzleInputs : \A resp \in get_puzzle_ratings(pn) :
          /\ resp.status = 404 <=> ~\E r \in ratings : PuzzleNameOf(r) = Title(pn)
          /\ resp.status # 404 => (resp.status = 200 /\ DOMAIN resp.body # {})


\* C16: get_solver_rating(P, S) answers the stored score when a Rating is
\* stored for the canonical pair; otherwise it answers 404, naming the
\* solver when the solver has no row, else the puzzle when the puzzle has no
\* row, else saying that the puzzle is not rated by the solver.
C16_PairRatingOrNotFound ==
    \A pn \in PuzzleInputs, sn \in SolverInputs :
       LET P == Title(pn)
           S == Title(sn)
           pair == RatingsOf(ratings, P, S)
       IN  \A resp \in get_solver_rating(pn, sn) :
              IF pair # {}
              THEN resp.status = 200 /\ \E r \in pair : r.rating = resp.body
              ELSE /\ resp.status = 404
                   /\ resp.detail =
                        IF SolverFirst(solvers, S) = {0} THEN SolverNotFound(S)
                        ELSE IF PuzzleFirst(puzzles, P) = {0} THEN PuzzleNotFound(P)
                        ELSE NotRatedBy(P, S)


\* C17: every 404 that the running server sends, from a read or from a
\* mutation, carries a message that names the missing solver or puzzle (or
\* the unrated pair) by canonical name; so does the 404 for a puzzle that
\* has a row but no rating left.
C17_NotFoundNamesEntity ==
    phase = "serving"
    => /\ \A sn \in SolverInputs : \A resp \in get_solver(sn) :
             resp.status = 404 => resp.detail.names = <<Title(sn)>>
       /\ \A pn \in PuzzleInputs : \A resp \in get_puzzle_ratings(pn) :
             resp.status = 404 => resp.detail.names = <<Title(pn)>>
       /\ \A pn \in PuzzleInputs, sn \in SolverInputs :
             \A resp \in get_solver_rating(pn, sn) :
                resp.status = 404
                => resp.detail.names \in {<<Title(sn)>>, <<Title(pn)>>, <<Title(pn), Title(sn)>>}
       /\ \A p \in Procs :
             (proc[p].pc = "done" /\ proc[p].status = 404)
             => proc[p].detail.names \in {<<proc[p].solver_name>>, <<proc[p].puzzle_name>>,
                                          <<proc[p].puzzle_name, proc[p].solver_name>>}


\* the rows of a table that carry a name
SolverRows(table, name) == {x \in table : x.solver = name}

PuzzleRows(table, name) == {z \in table : z.puzzle = name}

\* C18: when requests do not overlap, an add_puzzle_rating(P, S, x) that
\* came in while the pair had no Rating is answered 201 with the new entry;
\* on its way it creates one Solver row when S had none and one Puzzle row
\* when P had none, and no row otherwise; when it has answered,
\* get_solver_rating answers x for every spelling of the pair, S is a key of
\* get_solvers() and P a key of get_puzzles(), and each name has one row.
C18_SequentialAddSucceeds ==
    [][\A p \in Procs, P \in PuzzleNames, S \in SolverNames, x \in Scores :
         (/\ proc[p].op = "add" /\ InFlight(p) /\ ~proc[p].rated
          /\ proc[p].puzzle_name = P /\ proc[p].solver_name = S /\ proc[p].rating = x
          /\ proc'[p] # proc[p] /\ proc'[p].op = "add")
         => /\ IF proc[p].pc = "add_new_solver"
               THEN /\ SolverRows(solvers, S) = {}
                    /\ Cardinality(SolverRows(solvers', S)) = 1
                    /\ Cardinality(solvers') = Cardinality(solvers) + 1
               ELSE solvers' = solvers
            /\ IF proc[p].pc = "add_new_puzzle"
               THEN /\ PuzzleRows(puzzles, P) = {}
                    /\ Cardinality(PuzzleRows(puzzles', P)) = 1
                    /\ Cardinality(puzzles') = Cardinality(puzzles) + 1
               ELSE puzzles' = puzzles
            /\ proc'[p].pc = "add_new_solver" => SolverRows(solvers', S) = {}
            /\ proc'[p].pc = "add_new_puzzle" => PuzzleRows(puzzles', P) = {}
            /\ proc'[p].pc = "done"
               => /\ proc'[p].status = 201
                  /\ proc'[p].body = SolverEntry(S, P, x)
                  /\ Cardinality(SolverRows(solvers', S)) = 1
                  /\ Cardinality(PuzzleRows(puzzles', P)) = 1
                  /\ Settled(P, S, x)'
                  /\ \A resp \in get_solvers' : S \in DOMAIN resp.body
                  /\ P \in DOMAIN get_puzzles']_vars

\* an add_puzzle_rating for Mel and "A B" was answered 201 in a store that
\* held ratings of another solver and another puzzle
C18_Witness ==
    /\ proc["t1"].pc = "done" /\ proc["t1"].op = "add" /\ proc["t1"].status = 201
    /\ ~proc["t1"].rated
    /\ proc["t1"].solver_name = <<"M", "e", "l">>
    /\ proc["t1"].puzzle_name = <<"A", " ", "B">>
    /\ \E r \in ratings : SolverNameOf(r) = <<"E", "m">> /\ PuzzleNameOf(r) = <<"G", "o">>
    /\ Cardinality(ratings) = 2


\* C19: when the process goes down through the finally clause, after run
\* returned (the server stopped) or raised (no solvers in the file), no
\* Rating row is left; and the start-up that follows stores exactly the
\* ratings of the file it loads: a score is stored for a pair of names
\* exactly when a record of the file gives it (files that give one pair two
\* scores aside).
C19_SessionsIndependent ==
    [][/\ shutdown => ratings' = {}
       /\ (phase = "down" /\ phase' = "down" /\ ops' # ops) => ratings' = {}
       /\ (phase = "down" /\ phase' = "starting" /\ ratings = {})
          => LET after == Store(solvers', puzzles', ratings')
                 loaded == Triples(solvers_puzzles_list')
             IN  (\A e1, e2 \in loaded : (e1[1] = e2[1] /\ e1[2] = e2[2]) => e1 = e2)
                 => \A P \in PuzzleNames, S \in SolverNames, v \in Scores :
                       (\E r \in StoredRatings(after, P, S) : r.rating = v)
                       <=> <<S, P, v>> \in loaded]_vars


\* the uploads that validate() rejects
Rejected == {upload \in Uploads : ~validate(upload)}

C21_DocumentedOutcomes ==
    \A p \in Procs :
       (proc[p].pc = "done" /\ proc[p].op \in {"add", "update", "delete"})
       => proc[p].status \in {200, 201, 204, 404, 409}


\* the games that some player rates now
RatedGames == all_games(games_by_player[1])

\* C23: in every state of the running Board_Game_App.py server, get_games()
\* is the set of games that at least one player rates, and
\* get_game_ratings(G) is answered 200 exactly for those games, with the
\* rating of every player that rates G.
C23_GamesListCurrent ==
    phase = "serving"
    => /\ mem_get_games = RatedGames
       /\ \A game_input \in GameInputs :
             LET game == Capitalize(game_input)
                 resp == mem_get_game_ratings(game_input)
                 by_player == games_by_player[1]
             IN  /\ resp.status = 200 <=> game \in RatedGames
                 /\ resp.status = 200
                    => resp.body = [name \in {n \in DOMAIN by_player :
                                                game \in DOMAIN by_player[n]} |->
                                       by_player[name][game]]


PlayerNames == {Capitalize(name) : name \in PlayerInputs}

GameNames == {Capitalize(game) : game \in GameInputs}

\* C22: in board_game_app.py a mutation acts on the table that the reads
\* query: a PATCH on a pair the table holds is answered 200 with the
\* player's name and the game mapped to the new rating, a POST for a pair
\* the table does not hold is answered 201, a DELETE of a pair the table
\* holds succeeds, and get_player_rating then gives the new rating (after a
\* PATCH or a POST) or answers NotFound (after a DELETE).
C22_MutationsActOnStore ==
    [][\A game \in GameNames, player_name \in PlayerNames, rating \in Scores :
          ( /\ phase = "serving" /\ phase' = "serving" /\ ops' = ops + 1
            /\ proc'["t1"].puzzle_name = game
            /\ proc'["t1"].solver_name = player_name
            /\ proc'["t1"].rating = rating )
          => /\ (proc'["t1"].op = "update" /\ RowsOf(ratings, game, player_name) # {})
                => /\ proc'["t1"].status = 200
                   /\ proc'["t1"].body.name = player_name
                   /\ proc'["t1"].body.games[game] = rating
                   /\ tbl_get_player_rating(ratings', game, player_name) = {Ok(rating)}
             /\ (proc'["t1"].op = "add" /\ RowsOf(ratings, game, player_name) = {})
                => /\ proc'["t1"].status = 201
                   /\ tbl_get_player_rating(ratings', game, player_name) = {Ok(rating)}
             /\ (proc'["t1"].op = "delete" /\ RowsOf(ratings, game, player_name) # {})
                => /\ proc'["t1"].status \in {200, 204}
                   /\ tbl_get_player_rating(ratings', game, player_name)
                        = {NotFound(0, GameNotRatedBy(game, player_name))}
      ]_vars


\* C24: every step of an update_solver_rating(P, S, y) request leaves the
\* Solver and Puzzle tables, the number of Rating rows and every Rating
\* other than the one the request loaded as they were; the Rating it loaded
\* is a Rating of the pair (P, S) and only its score changes, to y.
C24_UpdateChangesOneScore ==
    [][\A p \in Procs :
         LET t == proc[p] IN
         (proc'[p] # t /\ proc'[p].op = "update")
         => /\ solvers' = solvers
            /\ puzzles' = puzzles
            /\ Cardinality(ratings') = Cardinality(ratings)
            /\ \A r \in ratings : r.id # t.row => r \in ratings'
            /\ \A r \in ratings :
                  r.id = t.row
                  => \/ r \in ratings'
                     \/ /\ t.pc = "update_commit"
                        /\ [r EXCEPT !.rating = t.rating] \in ratings'
                        /\ PuzzleNameOf(r) = t.puzzle_name
                        /\ SolverNameOf(r) = t.solver_name]_vars

\* an update has committed a score other than the one it loaded, and the
\* table holds other ratings
C24_Witness ==
    \E p \in Procs :
       LET t == proc[p] IN
       /\ t.pc = "update_refresh"
       /\ t.loaded # t.rating
       /\ \E r \in ratings : r.id = t.row /\ r.rating = t.rating
       /\ \E r \in ratings : r.id # t.row /\ r.rating # t.rating


\* C25: when requests do not overlap, after every step (bulk load, add,
\* update, delete, shutdown, start-up) no two Solver rows have the same name
\* and no two Puzzle rows have the same name, and no step removes a Solver
\* or Puzzle row: the rows outlive shutdown, and the next bulk load finds
\* them instead of creating them again.
C25_NamesUniqueSequential ==
    [][/\ \A s1 \in solvers', s2 \in solvers' : s1.solver = s2.solver => s1 = s2
       /\ \A z1 \in puzzles', z2 \in puzzles' : z1.puzzle = z2.puzzle => z1 = z2
       /\ solvers \subseteq solvers'
       /\ puzzles \subseteq puzzles']_vars

\* a bulk load of records of one solver has run on a store where that
\* solver's row is older than another solver's row: the row was made in an
\* earlier cycle and the load found it
C25_Witness ==
    /\ phase = "starting"
    /\ solvers_puzzles_list # <<>>
    /\ \E s \in solvers, m \in solvers :
          /\ s.id < m.id
          /\ \A i \in DOMAIN solvers_puzzles_list : solvers_puzzles_list[i].name = s.solver
          /\ \E r \in ratings : r.solver_id = s.id


\* the names of the solvers that have at least one Rating
RatedSolvers == {SolverNameOf(r) : r \in ratings}

\* the mapping that a bulk load stores: every solver of puzzles_by_solver
\* that rates a puzzle, with its mapping from puzzle to score
LoadedMapping(puzzles_by_solver) ==
    [name \in {k \in Keys(puzzles_by_solver) : ItemValue(puzzles_by_solver, k) # <<>>} |->
        GamesOf(ItemValue(puzzles_by_solver, name))]

\* C26: while the server runs, get_solvers() lists exactly the solvers that
\* have at least one rating, each with the mapping that get_solver answers
\* for that solver; and right after the bulk load of a mapping into a store
\* without ratings, get_solvers() returns that mapping.
C26_SolversListing ==
    [][/\ phase' = "serving"
          => \A resp \in get_solvers' :
                /\ resp.status = 200
                /\ DOMAIN resp.body = RatedSolvers'
                /\ \A S \in SolverNames :
                      S \in DOMAIN resp.body => get_solver(S)' = {Ok(resp.body[S])}
       /\ (phase = "down" /\ phase' = "starting" /\ ratings = {})
          => get_solvers'
               = {Ok(LoadedMapping(create_puzzles_by_solver(solvers_puzzles_list')))}]_vars


\* C27: after every step every Rating row references a Solver row and a
\* Puzzle row of the tables, and no step (delete_puzzle_rating and shutdown
\* included) removes a Solver or Puzzle row that a Rating still references.
C27_RatingsReferenceRows ==
    [][/\ \A r \in ratings' :
             /\ \E s \in solvers' : s.id = r.solver_id
             /\ \E z \in puzzles' : z.id = r.puzzle_id
       /\ \A s \in solvers \ solvers' : \A r \in ratings' : r.solver_id # s.id
       /\ \A z \in puzzles \ puzzles' : \A r \in ratings' : r.puzzle_id # z.id]_vars

\* a delete has been answered 204 while other ratings stay, and every
\* Solver and Puzzle row is still there
C27_Witness ==
    /\ \E p \in Procs : proc[p].pc = "done" /\ proc[p].op = "delete" /\ proc[p].status = 204
    /\ ratings # {}
    /\ Cardinality(solvers) >= 2
    /\ Cardinality(puzzles) >= 2


\* C28: every step of an add_puzzle_rating request keeps every Solver,
\* Puzzle and Rating row as it was; the step that makes the Puzzle adds one
\* Puzzle row and nothing else, the step that makes the Solver adds one
\* Solver row and nothing else, and the insert adds one Rating row, of the
\* request's pair and score, when it answers 201 and none otherwise.  Each
\* of the three steps runs at most once in a request, so a successful add
\* adds exactly one Rating, at most one Solver and at most one Puzzle.
C28_AddAddsOneRating ==
    [][\A p \in Procs :
         LET t == proc[p] IN
         (proc'[p] # t /\ proc'[p].op = "add")
         => /\ ratings \subseteq ratings'
            /\ solvers \subseteq solvers'
            /\ puzzles \subseteq puzzles'
            /\ Cardinality(puzzles') = Cardinality(puzzles)
                                       + (IF t.pc = "add_new_puzzle" THEN 1 ELSE 0)
            /\ Cardinality(solvers') = Cardinality(solvers)
                                       + (IF t.pc = "add_new_solver" THEN 1 ELSE 0)
            /\ Cardinality(ratings') = Cardinality(ratings)
                                       + (IF proc'[p].pc = "done" /\ proc'[p].status = 201
                                          THEN 1 ELSE 0)
            /\ t.pc \in {"add_new_puzzle", "add_new_solver"}
               => proc'[p].pc \in {"add_new_solver", "add_insert"} /\ proc'[p].pc # t.pc
            /\ \A r \in ratings' \ ratings :
                  /\ r.rating = t.rating
                  /\ \E s \in solvers : s.id = r.solver_id /\ s.solver = t.solver_name
                  /\ \E z \in puzzles : z.id = r.puzzle_id /\ z.puzzle = t.puzzle_name]_vars

\* an add has been answered 201 after it made a Solver row and no Puzzle
\* row, in a store that held a rating
C28_Witness ==
    /\ \E p \in Procs : proc[p].pc = "done" /\ proc[p].op = "add" /\ proc[p].status = 201
    /\ Cardinality(ratings) = 2
    /\ Cardinality(solvers) = 2
    /\ Cardinality(puzzles) = 1


\* C29: when update_solver_rating or delete_puzzle_rating answers NotFound
\* for a pair, get_solver_rating on the same store answers NotFound for that
\* pair with the same detail: the three handlers name the same missing
\* entity, also when neither the solver nor the puzzle has a row.
C29_SameMissingEntity ==
    [][\A p \in Procs, P \in PuzzleNames, S \in SolverNames :
         (/\ proc'[p] # proc[p]
          /\ proc'[p].op \in {"update", "delete"}
          /\ proc'[p].pc = "done" /\ proc'[p].status = 404
          /\ proc'[p].puzzle_name = P /\ proc'[p].solver_name = S)
         => \A resp \in get_solver_rating(P, S) :
               resp.status = 404 /\ resp.detail = proc'[p].detail]_vars


\* the (player, game, rating) items that the table holds
StoredItems(table) == {<<row.player, row.game, row.rating>> : row \in table}

\* C30: the server of board_game_app.py starts serving only after the bulk
\* load has been committed: at the step that starts the server the table
\* holds every (player, game, rating) item of the mapping that run built
\* from the file.
C30_ServesAfterLoadCommitted ==
    [][(phase = "starting" /\ phase' = "serving")
       => ItemsOf(create_games_by_player(solvers_puzzles_list)) \subseteq StoredItems(ratings)]_vars

====
